---- MODULE Spec2Model ----
(***************************************************************************)
(* Model of pythian's scheduling core: schedule.Buffer (buffer.go),        *)
(* schedule.SlotMonitor (slots.go) and schedule.Schedule (schedule.go).    *)
(***************************************************************************)
EXTENDS Integers, Sequences, FiniteSets, TLC

(* ------------------------------ bounds --------------------------------- *)
MaxPush == 3
MaxFlush == 2
MaxSlot == 3
MaxConn == 2
MaxEvents == 4
MaxEvSlot == 4
MaxPub == 2
MaxUnsub == 3

(* ------------------------------ domains -------------------------------- *)
Pubs == {"P1"}
Accs == {"A", "B"}
Slots == 0..MaxSlot
\* Goroutines calling the Buffer. They are interchangeable, so a new call is
\* always made by the lowest-numbered goroutine that is not inside a call.
Pushers == {1, 2}
Flushers == {3, 4}
NoOwner == 0

\* The zero value of a map lookup / a nil *pyth.Instruction.
NoIns == [payload |-> "none", naccs |-> 0, pub |-> "-", price |-> "-", slot |-> 0, id |-> 0]

\* Instructions a caller can hand to PushUpdate: every update-price instruction
\* with three accounts, and instructions of another payload or account count.
GoodInputs ==
    [payload : {"UpdPrice"}, naccs : {3}, pub : Pubs, price : Accs, slot : Slots, id : {0}]
BadInputs ==
    [payload : {"UpdPrice"}, naccs : {2, 4}, pub : {"P1"}, price : {"A"}, slot : {MaxSlot}, id : {0}]
    \cup [payload : {"AddPrice"}, naccs : {3}, pub : {"P1"}, price : {"A"}, slot : {MaxSlot}, id : {0}]
InsInputs == GoodInputs \cup BadInputs

VARIABLES
    updates,    \* Buffer.updates: price account -> pending instruction (NoIns = absent)
    lock,       \* Buffer.lock: the thread holding it, or NoOwner
    pc,         \* position of every Buffer caller
    arg,        \* PushUpdate's ins, per pusher
    minSlot,    \* Flush's minSlot, per flusher
    todo,       \* keys the range loop of a Flush has still to yield
    builder,    \* instructions added to the TransactionBuilder of a Flush
    nUpd,       \* Flush's local counter "updates"
    ret,        \* what the last Flush of a flusher returned
    sent,       \* metricUpdatesSent, by (publisher, price)
    dropped,    \* metricUpdatesDropped{reason="replaced"}, by (publisher, price)
    snap,       \* history: Buffer.updates when a Flush took the lock
    pushed,     \* history: the instructions inserted, in the order of insertion
    fate,       \* history: what became of each of them
    rejected,   \* history: the last instruction PushUpdate returned on without inserting
    nReject,    \* history: number of such calls
    nFlush,     \* history: number of Flush calls made
    batched     \* history: number of instructions in the batches Flush has returned

bufVars == <<updates, lock, pc, arg, minSlot, todo, builder, nUpd, ret,
             sent, dropped, snap, pushed, fate, rejected, nReject, nFlush, batched>>

VARIABLES
    impl,       \* which monitor runs: "SlotMonitor" (slots.go) or "Schedule" (schedule.go)
    ctx,        \* the context passed to Run: "live" or "canceled"
    mpc,        \* position of the goroutine inside Run
    client,     \* the ws client of the current runConn: "none", "open", "closed"
    sub,        \* its subscription: "none", "open", "unsub" (nil queued), "dead"
    readCtx,    \* the WithTimeout context of the current readNextUpdate
    wdog,       \* a watchdog goroutine saw DeadlineExceeded and has yet to Unsubscribe
    cur,        \* the update Recv returned to the current readNextUpdate
    rerr,       \* the error runConn returned to Run's retry operation
    lastSlot,   \* SlotMonitor.lastSlot
    ch,         \* the buffered channel "updates" (capacity 1)
    chClosed,   \* number of times close(s.updates) ran
    runRet,     \* what Run returned
    registered, \* callbacks subscribed on SlotMonitor.bus
    notes,      \* history: slots each callback was called with since it was subscribed
    nConn,      \* history: connections established
    nEvents,    \* history: updates Recv returned
    connSlot,   \* history: slot of the last first-shred update of this connection
    connFirst,  \* history: the last first-shred update was the first of its connection
    lastTracked,\* history: slot of the last first-shred update Recv returned
    scen,       \* history: how far the received updates follow ScenarioEvents
    lost        \* history: slot of the update dropped last while the channel stayed full

monVars == <<impl, ctx, mpc, client, sub, readCtx, wdog, cur, rerr, lastSlot, ch,
             chClosed, runRet, registered, notes, nConn, nEvents, connSlot,
             connFirst, lastTracked, scen, lost>>

VARIABLES
    handlers,     \* bus.handlers[busKey]: the registered callbacks, in order
    busLock,      \* bus.lock: "free", or "publish" while Publish holds it
    copyHandlers, \* Publish's copy of the handlers
    pubIdx,       \* Publish's position in the copy (0: no Publish is running)
    handle,       \* per closure, the variable unsub of its asyncSubscribePriceSchedule:
                  \* "none" before Subscribe is called, "unset" once the callback is
                  \* registered, "held" once the cancel func is assigned to it
    panicked,     \* a callback ran "go unsub()" on a nil unsub: the process died
    unsubPending, \* closures whose callback started "go unsub()"
    invoked,      \* history: calls of each closure by the current Publish
    atBegin,      \* history: closures registered when the current Publish began
    cancelled,    \* history: closures whose cancel func has been called
    nPub,         \* history: Publish calls completed
    nUnsub        \* history: cancel func calls made

busVars == <<handlers, busLock, copyHandlers, pubIdx, handle, panicked, unsubPending,
             invoked, atBegin, cancelled, nPub, nUnsub>>

vars == <<bufVars, monVars, busVars>>

\* What the operations of the monitors, of the Buffer and of the bus leave alone.
notMonVars == <<bufVars, busVars>>
notBufVars == <<monVars, busVars>>
notBusVars == <<bufVars, monVars>>

(* ------------------------- buffer.go: helpers --------------------------- *)
\* ins.Payload.(*pyth.CommandUpdPrice)
IsUpdPrice(ins) == ins.payload = "UpdPrice"

\* A check that only rejects too few accounts.
TooFewAccounts(ins) == ins.naccs < 3

\* len(accs) != 3
WrongAccounts(ins) == ins.naccs # 3

\* A lock that never makes its caller wait.
LockIgnored(l) == TRUE

\* b.lock.Lock() returns once no goroutine holds the mutex.
LockFree(l) == l = NoOwner

\* A replacement test that counts every insert as a replacement.
AlwaysReplaces(m, ins) == TRUE

\* if _, ok := b.updates[priceAcc]; ok
Replaces(m, ins) == m[ins.price] # NoIns

\* A metric whose increment is left out.
NoInc(ctr, pub, price) == ctr

\* metric.WithLabelValues(publisher, price, ...).Inc()
Inc(ctr, pub, price) == [ctr EXCEPT ![<<pub, price>>] = @ + 1]

\* An insert that keeps the entry already pending.
InsertIfAbsent(m, ins) == IF m[ins.price] # NoIns THEN m ELSE [m EXCEPT ![ins.price] = ins]

\* b.updates[priceAcc] = ins
Insert(m, ins) == [m EXCEPT ![ins.price] = ins]

\* delete(b.updates, price)
Drain(m, price) == [m EXCEPT ![price] = NoIns]

\* A freshness test that also discards the boundary slot.
StaleOrEqual(ins, min) == ins.slot <= min

\* update.PubSlot < minSlot
Stale(ins, min) == ins.slot < min

Keys(m) == {a \in Accs : m[a] # NoIns}

Range(q) == {q[i] : i \in DOMAIN q}

NoRet == [kind |-> "none", batch |-> <<>>]

NewBuffer ==
    /\ updates = [a \in Accs |-> NoIns]
    /\ lock = NoOwner
    /\ pc = [t \in Pushers \cup Flushers |-> "idle"]
    /\ arg = [t \in Pushers |-> NoIns]
    /\ minSlot = [t \in Flushers |-> 0]
    /\ todo = [t \in Flushers |-> {}]
    /\ builder = [t \in Flushers |-> <<>>]
    /\ nUpd = [t \in Flushers |-> 0]
    /\ ret = [t \in Flushers |-> NoRet]
    /\ sent = [k \in Pubs \X Accs |-> 0]
    /\ dropped = [k \in Pubs \X Accs |-> 0]
    /\ snap = [t \in Flushers |-> [a \in Accs |-> NoIns]]
    /\ pushed = <<>>
    /\ fate = <<>>
    /\ rejected = NoIns
    /\ nReject = 0
    /\ nFlush = 0
    /\ batched = 0

(* ------------------------- Buffer.PushUpdate ---------------------------- *)
\* Calls of PushUpdate made so far that passed the shape checks.
Accepted == Len(pushed) + Cardinality({t \in Pushers : pc[t] = "lock"})

\* The shape checks, made before the lock is requested. A rejected call returns.
PushUpdate_call(t, ins) ==
    /\ pc[t] = "idle"
    /\ \A u \in Pushers : u < t => pc[u] # "idle"
    /\ Accepted + nReject < MaxPush
    /\ IF ~IsUpdPrice(ins) \/ WrongAccounts(ins)
         THEN /\ rejected' = ins
              /\ nReject' = nReject + 1
              /\ UNCHANGED <<pc, arg>>
         ELSE /\ pc' = [pc EXCEPT ![t] = "lock"]
              /\ arg' = [arg EXCEPT ![t] = ins]
              /\ UNCHANGED <<rejected, nReject>>
    /\ UNCHANGED <<updates, lock, minSlot, todo, builder, nUpd, ret, sent, dropped,
                   snap, pushed, fate, nFlush>>
    /\ UNCHANGED batched
    /\ UNCHANGED notBufVars

\* b.lock.Lock() ... defer b.lock.Unlock(): the critical section of PushUpdate.
PushUpdate_locked(t) ==
    LET ins == [arg[t] EXCEPT !.id = Len(pushed) + 1]
        old == updates[ins.price] IN
    /\ pc[t] = "lock"
    /\ LockFree(lock)
    /\ dropped' = IF Replaces(updates, ins) THEN Inc(dropped, ins.pub, ins.price) ELSE dropped
    /\ updates' = Insert(updates, ins)
    /\ pushed' = Append(pushed, ins)
    /\ fate' = [i \in 1..Len(pushed) + 1 |->
                  IF i = ins.id THEN "pending"
                  ELSE IF old # NoIns /\ i = old.id THEN "replaced"
                  ELSE fate[i]]
    /\ pc' = [pc EXCEPT ![t] = "idle"]
    /\ arg' = [arg EXCEPT ![t] = NoIns]
    /\ UNCHANGED <<lock, minSlot, todo, builder, nUpd, ret, sent, snap, rejected, nReject, nFlush>>
    /\ UNCHANGED batched
    /\ UNCHANGED notBufVars

(* ----------------------------- Buffer.Flush ----------------------------- *)
Flush_call(t, min) ==
    /\ pc[t] = "idle"
    /\ \A u \in Flushers : u < t => pc[u] # "idle"
    /\ nFlush < MaxFlush
    /\ nFlush' = nFlush + 1
    /\ minSlot' = [minSlot EXCEPT ![t] = min]
    /\ ret' = [ret EXCEPT ![t] = NoRet]
    /\ snap' = [snap EXCEPT ![t] = [a \in Accs |-> NoIns]]
    /\ pc' = [pc EXCEPT ![t] = "lock"]
    /\ UNCHANGED <<updates, lock, arg, todo, builder, nUpd, sent, dropped,
                   pushed, fate, rejected, nReject>>
    /\ UNCHANGED batched
    /\ UNCHANGED notBufVars

\* b.lock.Lock(); builder := NewTransactionBuilder(); var updates uint; range b.updates
Flush_lock(t) ==
    /\ pc[t] = "lock"
    /\ LockFree(lock)
    /\ lock' = t
    /\ builder' = [builder EXCEPT ![t] = <<>>]
    /\ nUpd' = [nUpd EXCEPT ![t] = 0]
    /\ todo' = [todo EXCEPT ![t] = Keys(updates)]
    /\ snap' = [snap EXCEPT ![t] = updates]
    /\ pc' = [pc EXCEPT ![t] = "range"]
    /\ UNCHANGED <<updates, arg, minSlot, ret, sent, dropped, pushed, fate, rejected, nReject, nFlush>>
    /\ UNCHANGED batched
    /\ UNCHANGED notBufVars

\* One iteration of "for price, insn := range b.updates": delete, then
\* appendUpdateToBuilder. The map yields its keys in any order.
Flush_range(t) ==
    /\ pc[t] = "range"
    /\ \E price \in todo[t] :
         LET insn == updates[price] IN
         /\ todo' = [todo EXCEPT ![t] = @ \ {price}]
         /\ IF insn = NoIns
              THEN UNCHANGED <<updates, builder, nUpd, sent, dropped, fate>>
              ELSE /\ updates' = Drain(updates, price)
                   /\ IF ~IsUpdPrice(insn)
                        THEN UNCHANGED <<builder, nUpd, sent, dropped, fate>>
                        ELSE IF Stale(insn, minSlot[t])
                        THEN /\ dropped' = Inc(dropped, insn.pub, insn.price)
                             /\ fate' = [fate EXCEPT ![insn.id] = "stale"]
                             /\ UNCHANGED <<builder, nUpd, sent>>
                        ELSE /\ sent' = Inc(sent, insn.pub, insn.price)
                             /\ builder' = [builder EXCEPT ![t] = Append(@, insn)]
                             /\ nUpd' = [nUpd EXCEPT ![t] = @ + 1]
                             /\ fate' = [fate EXCEPT ![insn.id] = "sent"]
                             /\ UNCHANGED dropped
    /\ UNCHANGED <<lock, pc, arg, minSlot, ret, snap, pushed, rejected, nReject, nFlush>>
    /\ UNCHANGED batched
    /\ UNCHANGED notBufVars

\* A return that hands out the builder whatever it holds.
FlushResultAlways(n, b) == [kind |-> "tx", batch |-> b]

\* "if updates == 0 { return nil }; return builder"
FlushResult(n, b) == IF n = 0 THEN [kind |-> "nil", batch |-> <<>>]
                              ELSE [kind |-> "tx", batch |-> b]

\* The range loop is exhausted: return, the deferred Unlock runs.
Flush_return(t) ==
    /\ pc[t] = "range"
    /\ todo[t] = {}
    /\ ret' = [ret EXCEPT ![t] = FlushResult(nUpd[t], builder[t])]
    /\ lock' = IF lock = t THEN NoOwner ELSE lock
    /\ pc' = [pc EXCEPT ![t] = "idle"]
    /\ minSlot' = [minSlot EXCEPT ![t] = 0]
    /\ builder' = [builder EXCEPT ![t] = <<>>]
    /\ nUpd' = [nUpd EXCEPT ![t] = 0]
    /\ snap' = [snap EXCEPT ![t] = [a \in Accs |-> NoIns]]
    /\ batched' = batched + Len(FlushResult(nUpd[t], builder[t]).batch)
    /\ UNCHANGED <<updates, arg, todo, sent, dropped, pushed, fate, rejected, nReject, nFlush>>
    /\ UNCHANGED notBufVars

NextBuffer ==
    \/ \E t \in Pushers, in \in InsInputs : PushUpdate_call(t, in)
    \/ \E t \in Pushers : PushUpdate_locked(t)
    \/ \E t \in Flushers, min \in Slots : Flush_call(t, min)
    \/ \E t \in Flushers : Flush_lock(t)
    \/ \E t \in Flushers : Flush_range(t)
    \/ \E t \in Flushers : Flush_return(t)

(* =============== slots.go (SlotMonitor), schedule.go (Schedule) ========= *)
Impls == {"SlotMonitor", "Schedule"}
Subscribers == {"s1"}
EvSlots == 1..MaxEvSlot
FirstShred == "firstShredReceived"
EvTypes == {FirstShred, "root"}
NoUpd == [type |-> "none", slot |-> 0]

\* The updates of the scenario [other,1], [tracked,2], [other,3], [tracked,4].
ScenarioEvents ==
    << [type |-> "root", slot |-> 1], [type |-> FirstShred, slot |-> 2],
       [type |-> "root", slot |-> 3], [type |-> FirstShred, slot |-> 4] >>

\* NewSlotMonitor / NewSchedule, and Run entered.
NewMonitor ==
    /\ ctx = "live"
    /\ mpc = "connect"
    /\ client = "none"
    /\ sub = "none"
    /\ readCtx = "none"
    /\ wdog = FALSE
    /\ cur = NoUpd
    /\ rerr = "nil"
    /\ lastSlot = 0
    /\ ch = <<>>
    /\ chClosed = 0
    /\ runRet = "none"
    /\ registered = {}
    /\ notes = [s \in Subscribers |-> <<>>]
    /\ nConn = 0
    /\ nEvents = 0
    /\ connSlot = 0
    /\ connFirst = FALSE
    /\ lastTracked = 0
    /\ scen = 0
    /\ lost = 0

\* The callbacks handed to Subscribe: closures 1 and 2 are made by the func
\* literal of asyncSubscribePriceSchedule, one per client; closure 3 is
\* another function.
Closures == {1, 2, 3}

\* eventbus.New()
NewBus ==
    /\ handlers = <<>>
    /\ busLock = "free"
    /\ copyHandlers = <<>>
    /\ pubIdx = 0
    /\ handle = [c \in Closures |-> "none"]
    /\ panicked = FALSE
    /\ unsubPending = {}
    /\ invoked = [c \in Closures |-> 0]
    /\ atBegin = {}
    /\ cancelled = {}
    /\ nPub = 0
    /\ nUnsub = 0

InitBuffer == NewBuffer /\ NewMonitor /\ NewBus /\ impl = "SlotMonitor"

InitMonitor == NewBuffer /\ NewMonitor /\ NewBus /\ impl \in Impls

\* A filter that lets every update type through.
AnyType(u) == TRUE

\* update.Type != ws.SlotsUpdatesFirstShredReceived
IsTracked(u) == u.type = FirstShred

\* context.WithTimeout(ctx, readTimeout): born cancelled under a cancelled parent.
WithTimeout(c) == IF c = "canceled" THEN "canceled" ELSE "live"

\* ctx.Err() of the read's context.
CtxErr(rc) == IF rc = "deadline" THEN "deadline" ELSE "canceled"

\* What readNextUpdate returns when Recv hands back a nil update.
NilUpdate(i) == IF i = "SlotMonitor" THEN "closed" ELSE "nil"

\* runConn's loop: a read error that is context.Canceled ends it with nil.
runConnResult(e) == IF e = "canceled" THEN "nil" ELSE e

\* The errors Run wraps in backoff.Permanent.
Permanent(i, e) ==
    IF i = "SlotMonitor" THEN e = "canceled" ELSE e \in {"canceled", "deadline"}

\* A Run that leaves the channel open when it returns.
CloseNever(n) == n

\* defer close(s.updates)
CloseUpdates(n) == n + 1

\* make(chan *ws.SlotsUpdatesResult, 1)
ChanCap == 1

\* A channel that always takes another value.
CanSendAlways(c) == TRUE

\* select: "case s.updates <- update" is ready while the buffer has room.
CanSend(c) == Len(c) < ChanCap

\* A select without a default case.
NoDefault(c, rc) == FALSE

\* select: "default" runs only when no other case is ready.
SelectDefault(c, rc) == ~CanSend(c) /\ rc = "live"

\* A full channel that gives up its oldest value for the new one.
DropOldest(c, v) == Append(Tail(c), v)

\* The default case only logs: the channel keeps what it holds.
DropNewest(c, v) == c

\* A readNextUpdate that publishes without storing the slot.
StoreSkipped(old, new) == old

\* A store that keeps the larger of the stored and the new slot.
StoreMax(old, new) == IF new > old THEN new ELSE old

\* atomic.StoreUint64(&s.lastSlot, update.Slot)
StoreSlot(old, new) == new

\* runConn returns e: the deferred client.Close() runs, the read's cancel() runs.
Teardown(e) ==
    /\ rerr' = e
    /\ mpc' = "classify"
    /\ client' = IF client = "none" THEN "none" ELSE "closed"
    /\ sub' = "none"
    /\ readCtx' = "none"
    /\ wdog' = FALSE
    /\ cur' = NoUpd

\* readNextUpdate returned nil: runConn's loop calls it again.
NextRead ==
    /\ readCtx' = WithTimeout(ctx)
    /\ cur' = NoUpd
    /\ mpc' = "recv"

\* Run returns v; the deferred close(s.updates) runs.
RunReturns(v) ==
    /\ mpc' = "returned"
    /\ runRet' = v
    /\ chClosed' = CloseUpdates(chClosed)

\* ws.Connect succeeds.
runConn_connect(i) ==
    /\ mpc = "connect"
    /\ impl = i
    /\ ctx = "live"
    /\ nConn < MaxConn
    /\ nConn' = nConn + 1
    /\ client' = "open"
    /\ connSlot' = 0
    /\ mpc' = "subscribe"
    /\ UNCHANGED <<impl, ctx, sub, readCtx, wdog, cur, rerr, lastSlot, ch, chClosed,
                   runRet, registered, notes, nEvents, connFirst, lastTracked, scen>>
    /\ UNCHANGED lost
    /\ UNCHANGED notMonVars

\* ws.Connect fails: with the context's error once it is cancelled, or with a
\* network error.
runConn_connectErr(e) ==
    /\ mpc = "connect"
    /\ e = "canceled" => ctx = "canceled"
    /\ Teardown(e)
    /\ UNCHANGED <<impl, ctx, lastSlot, ch, chClosed, runRet, registered, notes,
                   nConn, nEvents, connSlot, connFirst, lastTracked, scen>>
    /\ UNCHANGED lost
    /\ UNCHANGED notMonVars

\* client.SlotsUpdatesSubscribe() succeeds and the first readNextUpdate starts.
runConn_subscribe ==
    /\ mpc = "subscribe"
    /\ client = "open"
    /\ sub' = "open"
    /\ readCtx' = WithTimeout(ctx)
    /\ mpc' = "recv"
    /\ UNCHANGED <<impl, ctx, client, wdog, cur, rerr, lastSlot, ch, chClosed, runRet,
                   registered, notes, nConn, nEvents, connSlot, connFirst, lastTracked, scen>>
    /\ UNCHANGED lost
    /\ UNCHANGED notMonVars

\* client.SlotsUpdatesSubscribe() fails.
runConn_subscribeErr ==
    /\ mpc = "subscribe"
    /\ Teardown("net")
    /\ UNCHANGED <<impl, ctx, lastSlot, ch, chClosed, runRet, registered, notes,
                   nConn, nEvents, connSlot, connFirst, lastTracked, scen>>
    /\ UNCHANGED lost
    /\ UNCHANGED notMonVars

\* sub.Recv() returns an update. First-shred updates of one connection carry
\* non-decreasing slots; other types carry any slot. An update of another type
\* makes readNextUpdate return nil at once.
readNextUpdate_recv(u) ==
    /\ mpc = "recv"
    /\ client = "open"
    /\ sub = "open"
    /\ nEvents < MaxEvents
    /\ u.type = FirstShred => u.slot >= connSlot
    /\ nEvents' = nEvents + 1
    /\ scen' = IF /\ scen >= 0
                  /\ scen < Len(ScenarioEvents)
                  /\ registered = Subscribers \/ impl = "Schedule"
                  /\ u = ScenarioEvents[scen + 1]
                 THEN scen + 1 ELSE -1
    /\ IF u.type = FirstShred
         THEN /\ connFirst' = (connSlot = 0)
              /\ connSlot' = u.slot
              /\ lastTracked' = u.slot
         ELSE UNCHANGED <<connFirst, connSlot, lastTracked>>
    /\ IF IsTracked(u)
         THEN /\ cur' = u
              /\ mpc' = IF impl = "SlotMonitor" THEN "store" ELSE "send"
              /\ UNCHANGED readCtx
         ELSE NextRead
    /\ UNCHANGED <<impl, ctx, client, sub, wdog, rerr, lastSlot, ch, chClosed, runRet,
                   registered, notes, nConn>>
    /\ UNCHANGED lost
    /\ UNCHANGED notMonVars

\* sub.Recv() returns an error: the connection failed, or the client was closed.
\* A subscription that was unsubscribed gets an error at most from a closed client.
readNextUpdate_recvErr ==
    /\ mpc = "recv"
    /\ sub = "open" \/ (sub = "dead" /\ client = "closed")
    /\ Teardown(runConnResult("net"))
    /\ UNCHANGED <<impl, ctx, lastSlot, ch, chClosed, runRet, registered, notes,
                   nConn, nEvents, connSlot, connFirst, lastTracked, scen>>
    /\ UNCHANGED lost
    /\ UNCHANGED notMonVars

\* sub.Recv() returns (nil, nil) after Unsubscribe: SlotMonitor returns
\* net.ErrClosed, Schedule returns nil and reads again.
readNextUpdate_recvNil ==
    /\ mpc = "recv"
    /\ sub = "unsub"
    /\ IF NilUpdate(impl) = "nil"
         THEN /\ NextRead
              /\ sub' = "dead"
              /\ UNCHANGED <<rerr, client, wdog>>
         ELSE Teardown(runConnResult(NilUpdate(impl)))
    /\ UNCHANGED <<impl, ctx, lastSlot, ch, chClosed, runRet, registered, notes,
                   nConn, nEvents, connSlot, connFirst, lastTracked, scen>>
    /\ UNCHANGED lost
    /\ UNCHANGED notMonVars

\* atomic.StoreUint64(&s.lastSlot, update.Slot)
readNextUpdate_store ==
    /\ mpc = "store"
    /\ lastSlot' = StoreSlot(lastSlot, cur.slot)
    /\ mpc' = "publish"
    /\ UNCHANGED <<impl, ctx, client, sub, readCtx, wdog, cur, rerr, ch, chClosed,
                   runRet, registered, notes, nConn, nEvents, connSlot, connFirst, lastTracked, scen>>
    /\ UNCHANGED lost
    /\ UNCHANGED notMonVars

\* s.bus.Publish(busKey, update.Slot): the bus calls every registered callback
\* on the Run goroutine, holding its lock until the last one has returned.
readNextUpdate_publish ==
    /\ mpc = "publish"
    /\ notes' = [s \in Subscribers |->
                   IF s \in registered THEN Append(notes[s], cur.slot) ELSE notes[s]]
    /\ mpc' = IF registered = {} THEN "send" ELSE "callback"
    /\ UNCHANGED <<impl, ctx, client, sub, readCtx, wdog, cur, rerr, lastSlot, ch,
                   chClosed, runRet, registered, nConn, nEvents, connSlot, connFirst, lastTracked, scen>>
    /\ UNCHANGED lost
    /\ UNCHANGED notMonVars

\* The callbacks have returned: Publish returns and metricSlotUpdates.Inc() runs.
Callback_return ==
    /\ mpc = "callback"
    /\ mpc' = "send"
    /\ UNCHANGED <<impl, ctx, client, sub, readCtx, wdog, cur, rerr, lastSlot, ch,
                   chClosed, runRet, registered, notes, nConn, nEvents, connSlot,
                   connFirst, lastTracked, scen>>
    /\ UNCHANGED lost
    /\ UNCHANGED notMonVars

\* select: case <-ctx.Done(): return ctx.Err()
readNextUpdate_sendDone ==
    /\ mpc = "send"
    /\ readCtx \in {"deadline", "canceled"}
    /\ Teardown(runConnResult(CtxErr(readCtx)))
    /\ UNCHANGED <<impl, ctx, lastSlot, ch, chClosed, runRet, registered, notes,
                   nConn, nEvents, connSlot, connFirst, lastTracked, scen>>
    /\ UNCHANGED lost
    /\ UNCHANGED notMonVars

\* select: case s.updates <- update
readNextUpdate_send ==
    /\ mpc = "send"
    /\ CanSend(ch)
    /\ ch' = Append(ch, cur.slot)
    /\ NextRead
    /\ UNCHANGED <<impl, ctx, client, sub, wdog, rerr, lastSlot, chClosed, runRet,
                   registered, notes, nConn, nEvents, connSlot, connFirst, lastTracked, scen>>
    /\ UNCHANGED lost
    /\ UNCHANGED notMonVars

\* select: default (no other case is ready): the update is dropped.
readNextUpdate_drop ==
    /\ mpc = "send"
    /\ SelectDefault(ch, readCtx)
    /\ ch' = DropNewest(ch, cur.slot)
    /\ lost' = cur.slot
    /\ NextRead
    /\ UNCHANGED <<impl, ctx, client, sub, wdog, rerr, lastSlot, chClosed, runRet,
                   registered, notes, nConn, nEvents, connSlot, connFirst, lastTracked, scen>>
    /\ UNCHANGED notMonVars

\* The retry operation of Run, given runConn's error, and backoff.Retry's
\* handling of what it returns.
Run_operation ==
    /\ mpc = "classify"
    /\ IF Permanent(impl, rerr)
         THEN RunReturns(rerr)
         ELSE IF ctx = "canceled" \/ rerr = "nil"
         THEN RunReturns("nil")
         ELSE /\ mpc' = "backoff"
              /\ UNCHANGED <<runRet, chClosed>>
    /\ UNCHANGED <<impl, ctx, client, sub, readCtx, wdog, cur, rerr, lastSlot, ch,
                   registered, notes, nConn, nEvents, connSlot, connFirst, lastTracked, scen>>
    /\ UNCHANGED lost
    /\ UNCHANGED notMonVars

\* backoff.Retry's wait: case <-ctx.Done(): return ctx.Err()
Run_backoffDone ==
    /\ mpc = "backoff"
    /\ ctx = "canceled"
    /\ RunReturns("canceled")
    /\ UNCHANGED <<impl, ctx, client, sub, readCtx, wdog, cur, rerr, lastSlot, ch,
                   registered, notes, nConn, nEvents, connSlot, connFirst, lastTracked, scen>>
    /\ UNCHANGED lost
    /\ UNCHANGED notMonVars

\* backoff.Retry's wait: the retry interval has passed, runConn is called again.
Run_backoffTimer ==
    /\ mpc = "backoff"
    /\ mpc' = "connect"
    /\ UNCHANGED <<impl, ctx, client, sub, readCtx, wdog, cur, rerr, lastSlot, ch,
                   chClosed, runRet, registered, notes, nConn, nEvents, connSlot,
                   connFirst, lastTracked, scen>>
    /\ UNCHANGED lost
    /\ UNCHANGED notMonVars

\* The caller cancels the context passed to Run.
Cancel ==
    /\ ctx = "live"
    /\ mpc # "returned"
    /\ ctx' = "canceled"
    /\ readCtx' = IF readCtx = "live" THEN "canceled" ELSE readCtx
    /\ UNCHANGED <<impl, mpc, client, sub, wdog, cur, rerr, lastSlot, ch, chClosed,
                   runRet, registered, notes, nConn, nEvents, connSlot, connFirst, lastTracked, scen>>
    /\ UNCHANGED lost
    /\ UNCHANGED notMonVars

\* The read's 20 s deadline passes: its context is done with DeadlineExceeded
\* and its watchdog goroutine goes on to Unsubscribe.
Deadline ==
    /\ readCtx = "live"
    /\ readCtx' = "deadline"
    /\ wdog' = TRUE
    /\ UNCHANGED <<impl, ctx, mpc, client, sub, cur, rerr, lastSlot, ch, chClosed,
                   runRet, registered, notes, nConn, nEvents, connSlot, connFirst, lastTracked, scen>>
    /\ UNCHANGED lost
    /\ UNCHANGED notMonVars

\* The watchdog goroutine calls sub.Unsubscribe().
Watchdog_unsubscribe ==
    /\ wdog
    /\ wdog' = FALSE
    /\ sub' = IF sub = "open" THEN "unsub" ELSE sub
    /\ UNCHANGED <<impl, ctx, mpc, client, readCtx, cur, rerr, lastSlot, ch, chClosed,
                   runRet, registered, notes, nConn, nEvents, connSlot, connFirst, lastTracked, scen>>
    /\ UNCHANGED lost
    /\ UNCHANGED notMonVars

\* runConn's goroutine "<-ctx.Done(); client.Close()".
runConn_closeOnCancel ==
    /\ ctx = "canceled"
    /\ client = "open"
    /\ client' = "closed"
    /\ UNCHANGED <<impl, ctx, mpc, sub, readCtx, wdog, cur, rerr, lastSlot, ch,
                   chClosed, runRet, registered, notes, nConn, nEvents, connSlot,
                   connFirst, lastTracked, scen>>
    /\ UNCHANGED lost
    /\ UNCHANGED notMonVars

\* A consumer receives from Updates().
Consume ==
    /\ ch # <<>>
    /\ ch' = Tail(ch)
    /\ lost' = 0
    /\ UNCHANGED <<impl, ctx, mpc, client, sub, readCtx, wdog, cur, rerr, lastSlot,
                   chClosed, runRet, registered, notes, nConn, nEvents, connSlot,
                   connFirst, lastTracked, scen>>
    /\ UNCHANGED notMonVars

\* SlotMonitor.Subscribe(callback)
Subscribe(s) ==
    /\ impl = "SlotMonitor"
    /\ mpc # "callback"
    /\ s \notin registered
    /\ registered' = registered \cup {s}
    /\ scen' = IF scen > 0 THEN -1 ELSE scen
    /\ UNCHANGED <<impl, ctx, mpc, client, sub, readCtx, wdog, cur, rerr, lastSlot, ch,
                   chClosed, runRet, notes, nConn, nEvents, connSlot, connFirst,
                   lastTracked>>
    /\ UNCHANGED lost
    /\ UNCHANGED notMonVars

\* The cancel func Subscribe returned.
Unsubscribe(s) ==
    /\ impl = "SlotMonitor"
    /\ mpc # "callback"
    /\ s \in registered
    /\ registered' = registered \ {s}
    /\ notes' = [notes EXCEPT ![s] = <<>>]
    /\ scen' = IF scen > 0 THEN -1 ELSE scen
    /\ UNCHANGED <<impl, ctx, mpc, client, sub, readCtx, wdog, cur, rerr, lastSlot, ch,
                   chClosed, runRet, nConn, nEvents, connSlot, connFirst,
                   lastTracked>>
    /\ UNCHANGED lost
    /\ UNCHANGED notMonVars

\* The steps of the goroutine that called Run and of the goroutines it starts.
RunSteps ==
    \/ \E i \in Impls : runConn_connect(i)
    \/ \E e \in {"net", "canceled"} : runConn_connectErr(e)
    \/ runConn_subscribe
    \/ runConn_subscribeErr
    \/ readNextUpdate_recvErr
    \/ readNextUpdate_recvNil
    \/ readNextUpdate_store
    \/ readNextUpdate_publish
    \/ Callback_return
    \/ readNextUpdate_sendDone
    \/ readNextUpdate_send
    \/ readNextUpdate_drop
    \/ Run_operation
    \/ Run_backoffDone
    \/ Run_backoffTimer
    \/ Watchdog_unsubscribe
    \/ runConn_closeOnCancel

NextMonitor ==
    \/ RunSteps
    \/ \E u \in [type : EvTypes, slot : EvSlots] : readNextUpdate_recv(u)
    \/ Cancel
    \/ Deadline
    \/ Consume
    \/ \E s \in Subscribers : Subscribe(s)
    \/ \E s \in Subscribers : Unsubscribe(s)

SpecBuffer == InitBuffer /\ [][NextBuffer]_vars

SpecMonitor == InitMonitor /\ [][NextMonitor]_vars


\* Steps the Run goroutine takes without waiting for the network: calls that
\* return, the error a closed client or a cancelled context delivers, and the
\* (nil, nil) an unsubscribed subscription delivers.
RunProgress ==
    \/ runConn_connectErr("canceled")
    \/ runConn_subscribe
    \/ runConn_subscribeErr
    \/ readNextUpdate_recvErr /\ client = "closed" /\ sub = "open"
    \/ readNextUpdate_recvNil
    \/ readNextUpdate_store
    \/ readNextUpdate_publish
    \/ readNextUpdate_sendDone
    \/ readNextUpdate_send
    \/ readNextUpdate_drop
    \/ Run_operation
    \/ Run_backoffDone
    \/ Run_backoffTimer

\* Every goroutine of the monitor that can run is eventually scheduled;
\* nothing is assumed of the subscribers' callbacks.
SpecMonitorOwnFair ==
    /\ SpecMonitor
    /\ WF_vars(RunProgress)
    /\ WF_vars(Watchdog_unsubscribe)
    /\ WF_vars(runConn_closeOnCancel)

\* The same, with callbacks that return.
SpecMonitorFair ==
    /\ SpecMonitorOwnFair
    /\ WF_vars(Callback_return)


(* ============ the subscriber bus of SlotMonitor (slots.go) =============== *)
\* What the bus can tell of a callback: reflect.ValueOf(fn).Pointer(), the code
\* pointer, which closures of one func literal share.
Code(c) == IF c \in {1, 2} THEN "handler.go:239" ELSE "other"

\* findHandlerIdx: the first handler with the callback's type and code
\* pointer (0: none).
findHandlerIdx(h, c) ==
    IF \E i \in DOMAIN h : Code(h[i]) = Code(c)
      THEN CHOOSE i \in DOMAIN h :
             /\ Code(h[i]) = Code(c)
             /\ \A j \in DOMAIN h : Code(h[j]) = Code(c) => i <= j
      ELSE 0

\* removeHandler: out-of-range indexes are ignored.
removeHandler(h, idx) ==
    IF idx \in DOMAIN h
      THEN SubSeq(h, 1, idx - 1) \o SubSeq(h, idx + 1, Len(h))
      ELSE h

\* bus.lock.Lock() returns once the mutex is free.
BusLockFree(l) == l = "free"

\* h.slots.Subscribe(func...): s.bus.Subscribe(busKey, callback) registers the
\* callback and unlocks; the cancel func is not yet assigned to unsub.
Bus_Subscribe(c) ==
    /\ ~panicked
    /\ handle[c] = "none"
    /\ BusLockFree(busLock)
    /\ handlers' = Append(handlers, c)
    /\ handle' = [handle EXCEPT ![c] = "unset"]
    /\ UNCHANGED <<busLock, copyHandlers, pubIdx, panicked, unsubPending, invoked, atBegin,
                   cancelled, nPub, nUnsub>>
    /\ UNCHANGED notBusVars

\* "unsub = h.slots.Subscribe(...)": Subscribe has returned and the cancel func
\* is assigned, with no synchronisation with the goroutine that publishes.
asyncSubscribePriceSchedule_assign(c) ==
    /\ ~panicked
    /\ handle[c] = "unset"
    /\ handle' = [handle EXCEPT ![c] = "held"]
    /\ UNCHANGED <<handlers, busLock, copyHandlers, pubIdx, panicked, unsubPending,
                   invoked, atBegin, cancelled, nPub, nUnsub>>
    /\ UNCHANGED notBusVars

\* The cancel func: s.bus.Unsubscribe(busKey, callback). A topic without
\* handlers makes it return an error, which is discarded.
Unsubscribe_locked(c) ==
    /\ ~panicked
    /\ BusLockFree(busLock)
    /\ nUnsub < MaxUnsub
    /\ nUnsub' = nUnsub + 1
    /\ handlers' = removeHandler(handlers, findHandlerIdx(handlers, c))
    /\ cancelled' = cancelled \cup {c}
    /\ UNCHANGED <<busLock, copyHandlers, pubIdx, handle, panicked, invoked, atBegin, nPub>>
    /\ UNCHANGED notBusVars

\* Some goroutine calls the cancel func of closure c.
Bus_Unsubscribe(c) ==
    /\ handle[c] = "held"
    /\ Unsubscribe_locked(c)
    /\ UNCHANGED unsubPending

\* The goroutine a callback started with "go unsub()".
Callback_goUnsub(c) ==
    /\ c \in unsubPending
    /\ Unsubscribe_locked(c)
    /\ unsubPending' = unsubPending \ {c}

\* s.bus.Publish(busKey, slot): lock, copy the handlers.
Publish_begin ==
    /\ ~panicked
    /\ pubIdx = 0
    /\ nPub < MaxPub
    /\ BusLockFree(busLock)
    /\ busLock' = "publish"
    /\ copyHandlers' = handlers
    /\ pubIdx' = 1
    /\ invoked' = [c \in Closures |-> 0]
    /\ atBegin' = Range(handlers)
    /\ UNCHANGED <<handlers, handle, panicked, unsubPending, cancelled, nPub, nUnsub>>
    /\ UNCHANGED notBusVars

\* Publish calls the next handler of its copy. The callback of
\* asyncSubscribePriceSchedule notifies its client and, when that fails with
\* net.ErrClosed, runs "go unsub()": it reads unsub, which is nil until the
\* subscribing goroutine has assigned it, and a go statement on a nil func
\* value is a fatal error.
Publish_call(closed) ==
    /\ ~panicked
    /\ pubIdx \in DOMAIN copyHandlers
    /\ LET c == copyHandlers[pubIdx] IN
         /\ invoked' = [invoked EXCEPT ![c] = @ + 1]
         /\ unsubPending' = IF closed /\ handle[c] = "held"
                              THEN unsubPending \cup {c} ELSE unsubPending
         /\ panicked' = (closed /\ handle[c] = "unset")
    /\ pubIdx' = pubIdx + 1
    /\ UNCHANGED <<handlers, busLock, copyHandlers, handle, atBegin, cancelled, nPub, nUnsub>>
    /\ UNCHANGED notBusVars

\* Every handler of the copy was called: the deferred Unlock runs.
Publish_end ==
    /\ ~panicked
    /\ pubIdx > Len(copyHandlers)
    /\ busLock' = "free"
    /\ copyHandlers' = <<>>
    /\ pubIdx' = 0
    /\ nPub' = nPub + 1
    /\ UNCHANGED <<handlers, handle, panicked, unsubPending, invoked, atBegin, cancelled, nUnsub>>
    /\ UNCHANGED notBusVars

NextBus ==
    \/ \E c \in Closures : Bus_Subscribe(c)
    \/ \E c \in Closures : asyncSubscribePriceSchedule_assign(c)
    \/ \E c \in Closures : Bus_Unsubscribe(c)
    \/ \E c \in Closures : Callback_goUnsub(c)
    \/ Publish_begin
    \/ \E closed \in BOOLEAN : Publish_call(closed)
    \/ Publish_end

SpecBus == InitBuffer /\ [][NextBus]_vars

(* ========== the scheduling policy: handler.go and the orchestrator ====== *)
\* Handler.handleUpdatePrice: the update is stamped with PubSlot = h.slots.Slot()
\* and pushed to the buffer.
handleUpdatePrice(t, a) ==
    /\ impl = "SlotMonitor"
    /\ PushUpdate_call(t, [payload |-> "UpdPrice", naccs |-> 3, pub |-> "P1",
                           price |-> a, slot |-> lastSlot, id |-> 0])

\* The orchestrator, a subscriber of the monitor: for every slot its callback
\* was called with, in order, it calls Flush with that slot as the floor.
Orchestrator_flush(t) ==
    /\ nFlush < Len(notes["s1"])
    /\ Flush_call(t, notes["s1"][nFlush + 1])

\* The cluster's next slot starts: the subscription delivers its first shred.
NextSlotEvent == [type |-> FirstShred, slot |-> lastTracked + 1]

\* The monitor on a connection that stays up, requests arriving at the
\* handler, and the orchestrator.
NextPolicy ==
    \/ runConn_connect("SlotMonitor")
    \/ runConn_subscribe
    \/ \E s \in Subscribers : Subscribe(s)
    \/ readNextUpdate_recv(NextSlotEvent)
    \/ readNextUpdate_store
    \/ readNextUpdate_publish
    \/ Callback_return
    \/ readNextUpdate_send
    \/ readNextUpdate_drop
    \/ \E t \in Pushers, a \in Accs : handleUpdatePrice(t, a)
    \/ \E t \in Pushers : PushUpdate_locked(t)
    \/ \E t \in Flushers : Orchestrator_flush(t)
    \/ \E t \in Flushers : Flush_lock(t)
    \/ \E t \in Flushers : Flush_range(t)
    \/ \E t \in Flushers : Flush_return(t)

SpecPolicy == InitBuffer /\ [][NextPolicy]_vars

(* ======================= properties of the Buffer ====================== *)
MaxOf(S) == CHOOSE m \in S : \A x \in S : x <= m

\* A Flush that has drained every key and is about to return and unlock.
AtReturn(t) == pc[t] = "range" /\ todo[t] = {}

\* The entries of the map a Flush took over that pass its freshness floor.
Fresh(t) == {snap[t][a] : a \in {b \in Keys(snap[t]) : snap[t][b].slot >= minSlot[t]}}

\* Every instruction held by a Flush in progress or by a returned batch.
InBatches == UNION {Range(builder[t]) \cup Range(ret[t].batch) : t \in Flushers}

\* C1: under every interleaving of PushUpdate and Flush, an inserted update
\* that is still neither replaced nor drained is the pending entry of its
\* account (never lost), a pending entry has not been drained (never both in
\* a batch and retained, never drained twice), no instruction is in two
\* batches or twice in one, and when a Flush is about to release the lock the
\* pending map is empty.
C1_AtomicDrain ==
    /\ \A i \in DOMAIN pushed :
         fate[i] = "pending" => updates[pushed[i].price] = pushed[i]
    /\ \A a \in Accs :
         updates[a] # NoIns =>
            /\ fate[updates[a].id] = "pending"
            /\ updates[a] \notin InBatches
    /\ \A t \in Flushers :
         /\ Cardinality(Range(builder[t])) = Len(builder[t])
         /\ \A u \in Flushers \ {t} :
              (Range(builder[t]) \cup Range(ret[t].batch))
                \cap (Range(builder[u]) \cup Range(ret[u].batch)) = {}
    /\ \A t \in Flushers : AtReturn(t) => Keys(updates) = {}

\* A Flush has drained an update into its batch and is about to unlock while
\* a concurrent PushUpdate waits for the lock.
C1_Witness ==
    \E t \in Flushers, p \in Pushers :
        AtReturn(t) /\ Len(builder[t]) > 0 /\ pc[p] = "lock"

\* C2: at most one update is pending per price account, and the pending entry
\* of an account is the update inserted last for it, as long as no Flush has
\* drained that update (last write wins).
C2_LastWriteWins ==
    \A a \in Accs :
        LET idx == {i \in DOMAIN pushed : pushed[i].price = a} IN
        /\ Cardinality({i \in idx : fate[i] = "pending"}) <= 1
        /\ IF idx # {} /\ fate[MaxOf(idx)] = "pending"
             THEN updates[a] = pushed[MaxOf(idx)]
             ELSE updates[a] = NoIns

\* Two updates were pushed for one account with no Flush in between.
C2_Witness ==
    \E i, j \in DOMAIN pushed :
        /\ i < j
        /\ pushed[i].price = pushed[j].price
        /\ fate[i] = "replaced"
        /\ fate[j] = "pending"

\* C3: the batch Flush(minSlot) returns holds exactly one instruction for each
\* entry of the map it took over whose publish slot is >= minSlot (the
\* boundary included) and none for an entry with a smaller slot.
C3_FreshnessFilter ==
    \A t \in Flushers :
        AtReturn(t) =>
            LET r == FlushResult(nUpd[t], builder[t]) IN
            /\ Range(r.batch) = Fresh(t)
            /\ Len(r.batch) = Cardinality(Fresh(t))
            /\ (\A a \in Keys(snap[t]) : snap[t][a].slot >= minSlot[t])
                  => Len(r.batch) = Cardinality(Keys(snap[t]))

\* A Flush returns after draining an entry exactly at minSlot and a stale one.
C3_Witness ==
    \E t \in Flushers :
        /\ AtReturn(t)
        /\ \E a, b \in Keys(snap[t]) :
              /\ snap[t][a].slot = minSlot[t]
              /\ snap[t][b].slot < minSlot[t]

\* C4: Flush returns nil exactly when no entry survives the freshness filter
\* (empty buffer or every entry stale), a returned batch holds at least one
\* instruction, and the buffer is left empty also when nil is returned.
C4_NilWhenNothingSurvives ==
    /\ \A t \in Flushers :
         AtReturn(t) =>
            LET r == FlushResult(nUpd[t], builder[t]) IN
            /\ (r.kind = "nil") <=> (Fresh(t) = {})
            /\ r.kind = "tx" => Len(r.batch) >= 1
            /\ r.kind = "nil" => Keys(updates) = {}
    /\ \A t \in Flushers : ret[t].kind = "tx" => Len(ret[t].batch) >= 1

\* A Flush is about to return nil although it drained entries: all were stale.
C4_Witness ==
    \E t \in Flushers :
        AtReturn(t) /\ Keys(snap[t]) # {} /\ Fresh(t) = {} /\ nUpd[t] = 0

\* The shape PushUpdate accepts: an update-price command with 3 accounts.
WellShaped(ins) == ins.payload = "UpdPrice" /\ ins.naccs = 3

\* C5: PushUpdate of an instruction that is not an update-price command or
\* does not reference exactly 3 accounts is a no-op: such an instruction never
\* waits for the lock nor enters the map, and the call leaves the pending map
\* and the sent and dropped counters as they were.
C5_MalformedIsNoOp ==
    /\ [](/\ \A p \in Pushers : pc[p] = "lock" => WellShaped(arg[p])
          /\ \A i \in DOMAIN pushed : WellShaped(pushed[i])
          /\ \A a \in Accs : updates[a] # NoIns => WellShaped(updates[a])
          /\ rejected # NoIns => ~WellShaped(rejected))
    /\ [][nReject' # nReject =>
            /\ updates' = updates
            /\ sent' = sent
            /\ dropped' = dropped
            /\ pc' = pc]_vars

\* A malformed instruction was pushed while an update was pending.
C5_Witness == nReject > 0 /\ rejected.naccs = 4 /\ Keys(updates) # {}

\* What one step adds to a counter.
Delta(old, new, k) == new[k] - old[k]

\* C6: an accepted PushUpdate adds 1 to the dropped counter of its (publisher,
\* price account) if an entry was pending for that account and 0 otherwise;
\* Flush adds 1 to the dropped counter for each stale entry it drains and 1 to
\* the sent counter for each entry it puts in the batch; nothing else changes
\* the counters. For Push(A,slot 2); Push(A,slot 3); Push(B,slot 0); Flush(1)
\* (the scenario 10, 12, 5, 8 with the slots renumbered in order) the batch
\* is {A@3}, dropped is 1 for A and 1 for B, and sent is 1 for A.
C6_CounterStep ==
    \A k \in Pubs \X Accs :
        IF Len(pushed') = Len(pushed) + 1
          THEN LET new == pushed'[Len(pushed')] IN
               /\ Delta(dropped, dropped', k) =
                    IF k = <<new.pub, new.price>> /\ updates[new.price] # NoIns
                      THEN 1 ELSE 0
               /\ Delta(sent, sent', k) = 0
        ELSE IF \E a \in Accs : updates[a] # NoIns /\ updates'[a] = NoIns
          THEN LET a == CHOOSE a \in Accs : updates[a] # NoIns /\ updates'[a] = NoIns
                   t == CHOOSE t \in Flushers : todo'[t] # todo[t]
                   e == updates[a]
                   mine == k = <<e.pub, e.price>>
                   stale == e.slot < minSlot[t] IN
               /\ Delta(dropped, dropped', k) = IF mine /\ stale THEN 1 ELSE 0
               /\ Delta(sent, sent', k) = IF mine /\ ~stale THEN 1 ELSE 0
               /\ (Len(builder'[t]) = Len(builder[t]) + 1) <=> ~stale
        ELSE /\ Delta(dropped, dropped', k) = 0
             /\ Delta(sent, sent', k) = 0

C6_Scenario ==
    /\ Len(pushed) = 3
    /\ nReject = 0
    /\ pushed[1].price = "A" /\ pushed[1].slot = 2
    /\ pushed[2].price = "A" /\ pushed[2].slot = 3
    /\ pushed[3].price = "B" /\ pushed[3].slot = 0
    /\ nFlush = 1
    /\ \E t \in Flushers :
         /\ AtReturn(t)
         /\ minSlot[t] = 1
         /\ snap[t] = [a \in Accs |-> IF a = "A" THEN pushed[2] ELSE pushed[3]]

C6_ScenarioOutcome ==
    /\ \A t \in Flushers :
         AtReturn(t) => FlushResult(nUpd[t], builder[t])
                          = [kind |-> "tx", batch |-> <<pushed[2]>>]
    /\ dropped[<<"P1", "A">>] = 1
    /\ dropped[<<"P1", "B">>] = 1
    /\ sent[<<"P1", "A">>] = 1
    /\ sent[<<"P1", "B">>] = 0

C6_CounterAccounting ==
    /\ [][C6_CounterStep]_vars
    /\ [](C6_Scenario => C6_ScenarioOutcome)

\* The scenario's Flush is about to return.
C6_Witness == C6_Scenario

(* ====================== properties of the monitors ===================== *)
OnScenario(k) == impl = "SlotMonitor" /\ scen = k

\* C7: Slot() is 0 until the first first-shred update is received; once such
\* an update carrying slot N has been stored Slot() is N; an update of another
\* type is never stored nor published, so it changes neither Slot() nor any
\* callback's notifications; a callback is notified only with the slot of the
\* accepted update. For the updates [other,1], [tracked,2], [other,3],
\* [tracked,4] Slot() is 2 and then 4, and a callback registered throughout is
\* notified exactly with 2 and then 4.
C7_SlotFollowsAccepted ==
    /\ [](impl = "SlotMonitor" =>
            /\ lastTracked = 0 => lastSlot = 0
            /\ mpc # "store" => lastSlot = lastTracked
            /\ cur # NoUpd => cur.type = FirstShred)
    /\ [][/\ lastSlot' # lastSlot => cur.type = FirstShred /\ lastSlot' = cur.slot
          /\ (notes' # notes /\ registered' = registered) =>
                /\ mpc = "publish"
                /\ cur.type = FirstShred
                /\ \A s \in registered : notes'[s] = Append(notes[s], cur.slot)]_vars
    /\ [](/\ OnScenario(1) => lastSlot = 0 /\ notes["s1"] = <<>>
          /\ OnScenario(2) /\ mpc = "store" => lastSlot = 0 /\ notes["s1"] = <<>>
          /\ (OnScenario(2) \/ OnScenario(3)) /\ mpc \notin {"store", "publish"}
                => lastSlot = 2 /\ notes["s1"] = <<2>>
          /\ OnScenario(4) /\ mpc \notin {"store", "publish"}
                => lastSlot = 4 /\ notes["s1"] = <<2, 4>>)

\* The four updates of the scenario have been received and processed.
C7_Witness == OnScenario(4) /\ mpc \notin {"store", "publish"}

C9_OnlyCancelTerminates ==
    (mpc = "returned" \/ chClosed > 0) => ctx = "canceled"

\* C10: once the caller's context is cancelled SlotMonitor.Run returns,
\* whichever point it is at; when it has returned the connection is closed and
\* the channel has been closed exactly once (and never twice); no connection is
\* established after the cancellation.
C10_CancelTerminates ==
    /\ (ctx = "canceled" /\ impl = "SlotMonitor") ~> (mpc = "returned")
    /\ [](impl = "SlotMonitor" =>
            /\ chClosed <= 1
            /\ mpc = "returned" => chClosed = 1 /\ client # "open" /\ sub = "none"
            /\ mpc # "returned" => chClosed = 0)
    /\ [][impl = "SlotMonitor" /\ ctx = "canceled" =>
            nConn' = nConn /\ (client' = "open" => client = "open")]_vars

\* Run was cancelled during a connection and has returned nil.
C10_Witness ==
    /\ impl = "SlotMonitor"
    /\ mpc = "returned"
    /\ runRet = "nil"
    /\ client = "closed"
    /\ chClosed = 1

\* C11: when Run stops because the caller cancelled, it returns no error,
\* whichever point the cancellation interrupted.
C11_CancelReturnsClean ==
    (impl = "SlotMonitor" /\ mpc = "returned" /\ ctx = "canceled") => runRet = "nil"

\* The Run goroutine leaves the blocking receive of an unsubscribed subscription.
TimeoutStep == mpc = "recv" /\ sub = "unsub" /\ (mpc' # mpc \/ sub' # sub)

\* C12: when a read got no message within its deadline and the caller has not
\* cancelled, the subscription is torn down, runConn ends with a non-terminal
\* error, Run goes on to the backoff wait and the next connection attempt,
\* and Run does not return because of it.
C12_TimeoutReconnects ==
    /\ [][TimeoutStep /\ ctx = "live" =>
            /\ mpc' = "classify"
            /\ sub' = "none"
            /\ rerr' # "nil"
            /\ ~Permanent(impl, rerr')]_vars
    /\ [][mpc = "classify" /\ rerr = "closed" /\ ctx' = "live" => mpc' \in {"classify", "backoff"}]_vars
    /\ [][mpc = "backoff" /\ ctx' = "live" => mpc' \in {"backoff", "connect"}]_vars

\* The Run goroutine leaves the select of readNextUpdate.
SelectStep == mpc = "send" /\ mpc' # "send"

\* C13 as stated: the channel never holds more than one value; at the select
\* an update is enqueued if the channel is empty and dropped, leaving the
\* channel as it is, if it is full; either way the loop goes on to the next read.
C13_SendOrDrop ==
    /\ [](Len(ch) <= 1)
    /\ [][SelectStep =>
            /\ mpc' = "recv"
            /\ Len(ch) = 0 => ch' = <<cur.slot>>
            /\ Len(ch) = 1 => ch' = ch]_vars

\* C13, amended: the channel never holds more than one value and the select
\* never blocks. While the read's context is live an update is enqueued if the
\* channel is empty and dropped if it is full, and the loop goes on to the
\* next read. Once the read's context is done (Run cancelled, or the read's
\* deadline passed) the select may return the context's error instead: then
\* nothing is enqueued and runConn's loop ends; with a full channel it always does.
C13_SendOrDropUnlessDone ==
    /\ [](Len(ch) <= 1)
    /\ [](mpc = "send" =>
            ENABLED (readNextUpdate_send \/ readNextUpdate_drop \/ readNextUpdate_sendDone))
    /\ [][SelectStep =>
            \/ /\ Len(ch) = 0
               /\ ch' = <<cur.slot>>
               /\ mpc' = "recv"
            \/ /\ Len(ch) = 1
               /\ readCtx = "live"
               /\ ch' = ch
               /\ mpc' = "recv"
            \/ /\ readCtx # "live"
               /\ ch' = ch
               /\ mpc' = "classify"
               /\ rerr' = runConnResult(CtxErr(readCtx))]_vars

\* An update was dropped at a full channel, whose value stayed, and the loop
\* is at its next read.
C13_Witness == mpc = "recv" /\ lost # 0 /\ Len(ch) = 1 /\ readCtx = "live"

\* A consumer receives from the channel after an update was dropped.
ReceiveAfterDrop == Len(ch') < Len(ch) /\ lost # 0

\* C14 as stated: after updates were dropped at a full channel, the value the
\* consumer receives next is the update accepted last.
C14_ConsumerGetsNewest == [][ReceiveAfterDrop => ch[1] = lost]_vars

\* C14, amended: a value that is in the channel stays there until a consumer
\* receives it; the updates accepted meanwhile are the ones dropped, so the
\* consumer receives the oldest unconsumed update.
C14_ConsumerGetsOldest ==
    /\ [][Len(ch) = 1 /\ Len(ch') = 1 => ch' = ch]_vars
    /\ [][lost' # lost /\ lost' # 0 => Len(ch) = 1 /\ ch' = ch /\ lost' = cur.slot]_vars
    /\ [](lost # 0 => Len(ch) = 1)

\* The channel holds an older slot than the update dropped last.
C14_Witness == lost # 0 /\ ch # <<>> /\ ch[1] < lost

\* C17: the watchdog of a read goes on to unsubscribe only if the read's
\* receive has returned no message when the deadline passes.
C17_DeadlineScopedToReceive == [][(wdog' /\ ~wdog) => cur = NoUpd]_vars

\* The Run goroutine is between accepting an update and its next read.
Processing == mpc \in {"store", "publish", "callback", "send"}

\* C18 as stated: after an update is accepted the read loop always leaves its
\* processing (for the next read, or for the end of the connection), whatever
\* the consumer of the channel and the callbacks do.
C18_ConsumersNeverStall == Processing ~> ~Processing

\* C18, amended: the same, whatever the consumer of the channel does, unless
\* a subscriber's callback never returns.
C18_OnlyCallbacksStall == C18_ConsumersNeverStall \/ <>[](mpc = "callback")

\* The callback has returned, an update was dropped at the channel nobody
\* receives from, and the loop is at its next read.
C18_Witness == mpc = "recv" /\ lost # 0 /\ notes["s1"] # <<>> /\ impl = "SlotMonitor"

\* C20: in SlotMonitor the slot is stored before the callbacks run and before
\* the send: while a callback runs with slot N, and when N is enqueued, Slot()
\* is N; a callback is called with the slot Slot() returns; and Slot() changes
\* only by storing an update received later.
C20_StoreBeforePublish ==
    /\ [](impl = "SlotMonitor" /\ mpc \in {"publish", "callback", "send"} => lastSlot = cur.slot)
    /\ [][impl = "SlotMonitor" /\ ch' # ch /\ ch' # <<>> => ch' = <<lastSlot>>]_vars
    /\ [][notes' # notes /\ registered' = registered =>
            \A s \in registered : notes'[s] = Append(notes[s], lastSlot)]_vars
    /\ [][lastSlot' # lastSlot => mpc = "store" /\ mpc' = "publish" /\ lastSlot' = cur.slot]_vars

\* A callback is running with the slot of an update of a second connection
\* that carries a smaller slot than the one stored before.
C20_Witness == mpc = "callback" /\ connFirst /\ nConn = 2 /\ Len(ch) = 1 /\ ch[1] > cur.slot

\* C19: under the scheduling policy (updates stamped with Slot() when they
\* are pushed, Flush(N) called for every accepted slot N) no update is discarded
\* as stale, so that every update that is not overwritten reaches a batch.
C19_StampedUpdatesReachABatch ==
    \A i \in DOMAIN fate : fate[i] # "stale"

(* ======================== properties of the bus ======================== *)
\* C15: a cancel func removes exactly the callback of its own Subscribe call,
\* however often it is called: a closure is registered if and only if it was
\* subscribed and its own cancel func has not been called.
C15_UnsubscribeRemovesOwn ==
    \A c \in Closures :
        c \in Range(handlers) <=> (handle[c] # "none" /\ c \notin cancelled)

\* A Publish has called the last handler of its copy.
PublishDone == pubIdx > Len(copyHandlers)

\* C16: a Publish always has a next step until it returns; when it has gone
\* through its copy it has called every callback that was registered when it
\* began exactly once and no other callback; Subscribe and cancel func calls
\* made meanwhile, from other goroutines or from the goroutine a callback
\* starts, change the registry only after the Publish has returned.
C16_PublishSnapshot ==
    /\ [](PublishDone => \A c \in Closures : invoked[c] = IF c \in atBegin THEN 1 ELSE 0)
    /\ [](pubIdx # 0 =>
            /\ \A c \in Closures : invoked[c] <= 1
            /\ copyHandlers = handlers
            /\ ENABLED ((\E closed \in BOOLEAN : Publish_call(closed)) \/ Publish_end))
    /\ [][pubIdx # 0 => handlers' = handlers]_vars

(* =================== conservation of updates (Buffer) ================== *)
RECURSIVE SumOver(_, _)
SumOver(f, S) == IF S = {} THEN 0
                 ELSE LET k == CHOOSE x \in S : TRUE IN f[k] + SumOver(f, S \ {k})

\* A counter summed over its (publisher, price account) labels.
Total(ctr) == SumOver(ctr, Pubs \X Accs)

\* Instructions a Flush in progress has added to its builder and not yet returned.
InBuilders == SumOver([t \in Flushers |-> Len(builder[t])], Flushers)

\* C21: under every interleaving of PushUpdate and Flush the number of updates
\* inserted equals the total of the sent counters plus the total of the
\* dropped counters plus the number of pending entries; no counter ever
\* decreases; the instructions of the returned batches, with those a Flush in
\* progress holds in its builder, are as many as the total of the sent
\* counters, so that once every Flush has returned the batches hold exactly
\* the updates counted as sent.
C21_Conservation ==
    /\ [](Len(pushed) = Total(sent) + Total(dropped) + Cardinality(Keys(updates)))
    /\ [](batched + InBuilders = Total(sent))
    /\ []((\A t \in Flushers : pc[t] # "range") => batched = Total(sent))
    /\ [][\A k \in Pubs \X Accs : sent'[k] >= sent[k] /\ dropped'[k] >= dropped[k]]_vars

\* Three updates were inserted and every call has returned: one update was
\* sent in a batch, one was dropped and one is pending.
C21_Witness ==
    /\ \A t \in Pushers \cup Flushers : pc[t] = "idle"
    /\ Len(pushed) = 3
    /\ Total(sent) = 1
    /\ batched = 1
    /\ Total(dropped) = 1
    /\ Cardinality(Keys(updates)) = 1

(* ============== asyncSubscribePriceSchedule and the bus ================ *)
\* C22: under every interleaving of Publish with the Subscribe call of
\* asyncSubscribePriceSchedule the callback finds unsub assigned when a
\* delivery fails on a closed connection; and the "go unsub()" it then starts
\* leaves the callback unsubscribed, so that its client is notified no more.
C22_HandleSetBeforeUse ==
    /\ [](~panicked)
    /\ [][\A c \in Closures :
            (c \in unsubPending /\ c \notin unsubPending') => c \notin Range(handlers')]_vars

====
